---- MODULE Spec2Model ----
(***************************************************************************)
(* A model of cai (src/cli.js): a directory walk that collects candidate   *)
(* files, a line-windowed search of those files for the tokens of a query, *)
(* and the report of the matches through a summarisation service.          *)
(*                                                                         *)
(* Text is modelled by TLA+ strings.  A path, a file name, a line and a    *)
(* query are strings; a character is a string of length one.              *)
(***************************************************************************)
EXTENDS Integers, Sequences, FiniteSets, TLC

(***************************************************************************)
(* Strings                                                                 *)
(***************************************************************************)

\* s[i] of JavaScript, 1-based here.
CharAt(s, i) == SubSeq(s, i, i)

\* s.substring(i - 1), the suffix that starts at the 1-based position i.
From(s, i) == SubSeq(s, i, Len(s))

UpperCaseLetters == "ABCDEFGHIJKLMNOPQRSTUVWXYZ"

LowerCaseLetters == "abcdefghijklmnopqrstuvwxyz"

\* String.prototype.toLowerCase on one character (the ASCII letters).
LowerChar(c) ==
  IF \E i \in 1..Len(UpperCaseLetters) : CharAt(UpperCaseLetters, i) = c
  THEN CharAt(LowerCaseLetters,
              CHOOSE i \in 1..Len(UpperCaseLetters) : CharAt(UpperCaseLetters, i) = c)
  ELSE c

RECURSIVE toLowerCase(_)
toLowerCase(s) ==
  IF s = "" THEN "" ELSE LowerChar(CharAt(s, 1)) \o toLowerCase(From(s, 2))

\* Array.prototype.join(sep) on an array of strings.
RECURSIVE join(_, _)
join(arr, sep) ==
  IF Len(arr) = 0 THEN ""
  ELSE IF Len(arr) = 1 THEN arr[1]
  ELSE arr[1] \o sep \o join(Tail(arr), sep)

\* The characters the class \s of a regular expression accepts (those a
\* TLA+ string can hold).
IsWhitespace(c) == c \in {" ", "\t", "\n", "\r", "\f"}

\* trim forgotten: the string is left as it is.
trimNothing(s) == s

\* String.prototype.trim.
RECURSIVE trimStart(_)
trimStart(s) ==
  IF s # "" /\ IsWhitespace(CharAt(s, 1)) THEN trimStart(From(s, 2)) ELSE s

RECURSIVE trimEnd(_)
trimEnd(s) ==
  IF s # "" /\ IsWhitespace(CharAt(s, Len(s)))
  THEN trimEnd(SubSeq(s, 1, Len(s) - 1)) ELSE s

trim(s) == trimEnd(trimStart(s))

\* The positions of s that hold a character of the set cs.
Positions(s, cs) == {i \in 1..Len(s) : CharAt(s, i) \in cs}

Min(S) == CHOOSE x \in S : \A y \in S : x <= y

Max(S) == CHOOSE x \in S : \A y \in S : x >= y

\* string.split(/\s+/): the pieces between the maximal runs of whitespace;
\* a run at either end leaves an empty piece there.
RECURSIVE splitWhitespace(_)
splitWhitespace(s) ==
  LET ws == {i \in 1..Len(s) : IsWhitespace(CharAt(s, i))} IN
  IF ws = {} THEN <<s>>
  ELSE LET first == Min(ws)
           after == {i \in first..Len(s) : ~IsWhitespace(CharAt(s, i))}
       IN  IF after = {} THEN <<SubSeq(s, 1, first - 1), "">>
           ELSE <<SubSeq(s, 1, first - 1)>> \o splitWhitespace(From(s, Min(after)))

\* content.split(/\r?\n/): the pieces between the line breaks, a line break
\* being "\n" with the "\r" right before it when there is one.
RECURSIVE splitLines(_)
splitLines(s) ==
  LET nl == Positions(s, {"\n"}) IN
  IF nl = {} THEN <<s>>
  ELSE LET i == Min(nl)
           stop == IF i > 1 /\ CharAt(s, i - 1) = "\r" THEN i - 2 ELSE i - 1
       IN  <<SubSeq(s, 1, stop)>> \o splitLines(From(s, i + 1))

\* path.extname(name) for a file name without directory part: from the last
\* "." to the end, and empty when there is no "." or the only "." leads.
extname(name) ==
  LET dots == Positions(name, {"."}) IN
  IF dots = {} \/ Max(dots) = 1 THEN "" ELSE From(name, Max(dots))

\* path.join(dir, name) for a normalised dir: "." is dropped.
pathJoin(dir, name) == IF dir = "." THEN name ELSE dir \o "/" \o name

(***************************************************************************)
(* The match predicate: escapeRegExp, new RegExp(..., 'i') and test        *)
(***************************************************************************)

\* The characters of the class [.*+?^${}()|[\]\\] in escapeRegExp.
EscapedChars == {".", "*", "+", "?", "^", "$", "{", "}", "(", ")", "|", "[", "]", "\\"}

\* The escaping forgotten: the token is used as a pattern.
escapeNothing(string) == string

\* escapeRegExp(string): '\\$&' puts a backslash before each such character.
RECURSIVE escapeRegExp(_)
escapeRegExp(string) ==
  IF string = "" THEN ""
  ELSE LET c == CharAt(string, 1) IN
       (IF c \in EscapedChars THEN "\\" \o c ELSE c) \o escapeRegExp(From(string, 2))

\* query.split(/\s+/).map(t => escapeRegExp(t)) and tokens.join('|').
RegExpSource(query) ==
  LET words == splitWhitespace(query) IN
  join([i \in 1..Len(words) |-> escapeRegExp(words[i])], "|")

\* The alternatives of a pattern: its pieces between the "|" that no backslash
\* escapes.
RECURSIVE Alternatives(_, _)
Alternatives(pattern, acc) ==
  IF pattern = "" THEN <<acc>>
  ELSE LET c == CharAt(pattern, 1) IN
       IF c = "\\" /\ Len(pattern) >= 2
       THEN Alternatives(From(pattern, 3), acc \o SubSeq(pattern, 1, 2))
       ELSE IF c = "|" THEN <<acc>> \o Alternatives(From(pattern, 2), "")
       ELSE Alternatives(From(pattern, 2), acc \o c)

\* The atoms of one alternative: "\c" is the character c, an unescaped "." is
\* any character but a line terminator, any other character is itself.
RECURSIVE Atoms(_)
Atoms(alt) ==
  IF alt = "" THEN <<>>
  ELSE LET c == CharAt(alt, 1) IN
       IF c = "\\" /\ Len(alt) >= 2
       THEN <<[any |-> FALSE, ch |-> CharAt(alt, 2)]>> \o Atoms(From(alt, 3))
       ELSE IF c = "."
       THEN <<[any |-> TRUE, ch |-> c]>> \o Atoms(From(alt, 2))
       ELSE <<[any |-> FALSE, ch |-> c]>> \o Atoms(From(alt, 2))

\* One atom against one character under the flag 'i'.
AtomAccepts(atom, c) ==
  IF atom.any THEN c \notin {"\n", "\r"} ELSE LowerChar(atom.ch) = LowerChar(c)

\* The atoms match the text at position pos.
AtomsMatchAt(atoms, text, pos) ==
  /\ pos + Len(atoms) - 1 <= Len(text)
  /\ \A k \in 1..Len(atoms) : AtomAccepts(atoms[k], CharAt(text, pos + k - 1))

\* new RegExp(pattern, 'i').test(text): some alternative matches somewhere.
RegExpTest(pattern, text) ==
  LET alts == Alternatives(pattern, "") IN
  \E a \in 1..Len(alts) : \E pos \in 1..(Len(text) + 1) :
    AtomsMatchAt(Atoms(alts[a]), text, pos)

(***************************************************************************)
(* The state of one run                                                    *)
(***************************************************************************)

VARIABLES
  pc,          \* the position of main: "main", "walk", "searchFile",
               \* "searchLine", "report", "summarise", "rejected" (the promise
               \* of main is rejected), "done" (main returned), "exited"
  args,        \* minimist's result: positional (args._), dir, max, window
  disk,        \* the file system: path -> node
  query, directory, maxResults, windowLines, regex,   \* the constants of main
  fileList,    \* the array walk fills
  stack,       \* the activations of walk, the innermost last
  results,     \* the array searchFiles fills
  f,           \* searchFiles: the 1-based position in files of the current file
  lines,       \* searchFiles: the lines of the current file
  i,           \* searchFiles: the 0-based index of the current line
  prompt,      \* the text sent to the summarisation service
  stdout, stderr, exitCode,
  ioLog,       \* history: the file system and service calls made, in order
  tested       \* history: the calls of regex.test, in order

vars == <<pc, args, disk, query, directory, maxResults, windowLines, regex,
          fileList, stack, results, f, lines, i, prompt, stdout, stderr,
          exitCode, ioLog, tested>>

mainVars == <<query, directory, maxResults, windowLines, regex>>

searchVars == <<results, f, lines, i, tested>>

outVars == <<prompt, stdout, stderr, exitCode>>

\* The set ignoreDirs of main.
ignoreDirs ==
  {"node_modules", "vendor", "third_party", ".git", "dist", "build", "tests",
   "test", "__tests__"}

\* The array allowedExt of walk.
allowedExt ==
  {".js", ".ts", ".jsx", ".tsx", ".py", ".go", ".java", ".c", ".cpp", ".h",
   ".cs", ".rb", ".php", ".swift", ".rs", ".sh", ".yaml", ".yml", ".json",
   ".env", ".toml", ".ini", ".md", ".txt"}

\* The limit taken inclusive: stats.size <= 1024 * 1024.
SizeAcceptedInclusive(size) == size <= 1024 * 1024

\* stats.size < 1024 * 1024
SizeAccepted(size) == size < 1024 * 1024

\* One entry of ioLog: the call, whether it succeeded, and how many results
\* searchFiles held when it was made.
Call(op, path, ok) == [op |-> op, path |-> path, ok |-> ok, have |-> Len(results)]

(***************************************************************************)
(* main, up to the call of walk                                            *)
(***************************************************************************)

\* args._.join(' ').trim()
QueryOf(a) == trim(join(a.positional, " "))

\* if (!query) { console.error(...); process.exit(1); }
MainEmptyQuery ==
  /\ pc = "main"
  /\ QueryOf(args) = ""
  /\ query' = QueryOf(args)
  /\ stderr' = Append(stderr, "Please provide a search query.")
  /\ exitCode' = 1
  /\ pc' = "exited"
  /\ UNCHANGED <<args, disk, directory, maxResults, windowLines, regex, fileList,
                 stack, searchVars, prompt, stdout, ioLog>>

\* The constants of main are set, fileList is empty and walk is called on the
\* directory.
MainParse ==
  /\ pc = "main"
  /\ QueryOf(args) # ""
  /\ query' = QueryOf(args)
  /\ directory' = args.dir
  /\ maxResults' = args.max
  /\ windowLines' = args.window
  /\ regex' = RegExpSource(QueryOf(args))
  /\ fileList' = <<>>
  /\ stack' = <<[dir |-> args.dir, listed |-> FALSE, entries |-> <<>>, k |-> 1]>>
  /\ pc' = "walk"
  /\ UNCHANGED <<args, disk, searchVars, outVars, ioLog>>

(***************************************************************************)
(* walk                                                                    *)
(***************************************************************************)

Top == stack[Len(stack)]

SetTop(fr) == [stack EXCEPT ![Len(stack)] = fr]

\* The directory entry the for loop of the innermost activation is at.
Entry == Top.entries[Top.k]

AtEntry == pc = "walk" /\ stack # <<>> /\ Top.listed /\ Top.k <= Len(Top.entries)

Advance == SetTop([Top EXCEPT !.k = @ + 1])

fullPath == pathJoin(Top.dir, Entry.name)

\* fs.promises.readdir(dir, { withFileTypes: true }) succeeds.
WalkReaddir ==
  /\ pc = "walk" /\ stack # <<>> /\ ~Top.listed
  /\ Top.dir \in DOMAIN disk /\ disk[Top.dir].kind = "dir" /\ disk[Top.dir].listable
  /\ stack' = SetTop([Top EXCEPT !.listed = TRUE, !.entries = disk[Top.dir].entries])
  /\ ioLog' = Append(ioLog, Call("readdir", Top.dir, TRUE))
  /\ UNCHANGED <<pc, args, disk, mainVars, fileList, searchVars, outVars>>

\* The failure of readdir swallowed: the directory counts as empty.
WalkReaddirFailsSwallowed ==
  /\ pc = "walk" /\ stack # <<>> /\ ~Top.listed
  /\ ~(Top.dir \in DOMAIN disk /\ disk[Top.dir].kind = "dir" /\ disk[Top.dir].listable)
  /\ ioLog' = Append(ioLog, Call("readdir", Top.dir, FALSE))
  /\ stack' = SetTop([Top EXCEPT !.listed = TRUE, !.entries = <<>>])
  /\ UNCHANGED <<pc, args, disk, mainVars, fileList, searchVars, outVars>>

\* readdir fails: no try encloses it in walk or in main, so every activation
\* of walk is abandoned and the promise of main is rejected.
WalkReaddirFails ==
  /\ pc = "walk" /\ stack # <<>> /\ ~Top.listed
  /\ ~(Top.dir \in DOMAIN disk /\ disk[Top.dir].kind = "dir" /\ disk[Top.dir].listable)
  /\ ioLog' = Append(ioLog, Call("readdir", Top.dir, FALSE))
  /\ stack' = <<>>
  /\ pc' = "rejected"
  /\ UNCHANGED <<args, disk, mainVars, fileList, searchVars, outVars>>

\* The set asked for the path of the entry: ignoreDirs.has(fullPath).
IsIgnoredByPath == fullPath \in ignoreDirs

\* ignoreDirs.has(entry.name)
IsIgnored == Entry.name \in ignoreDirs

\* if (ignoreDirs.has(entry.name)) continue;
WalkSkipIgnored ==
  /\ AtEntry /\ Entry.kind = "dir" /\ IsIgnored
  /\ stack' = Advance
  /\ UNCHANGED <<pc, args, disk, mainVars, fileList, searchVars, outVars, ioLog>>

\* await walk(fullPath, ignoreDirs, fileList);
WalkDescend ==
  /\ AtEntry /\ Entry.kind = "dir" /\ ~IsIgnored
  /\ stack' = Append(Advance,
                     [dir |-> fullPath, listed |-> FALSE, entries |-> <<>>, k |-> 1])
  /\ UNCHANGED <<pc, args, disk, mainVars, fileList, searchVars, outVars, ioLog>>

\* if (allowedExt.includes(ext)) fileList.push(fullPath);
WalkAllowedExt ==
  /\ AtEntry /\ Entry.kind = "file"
  /\ toLowerCase(extname(Entry.name)) \in allowedExt
  /\ fileList' = Append(fileList, fullPath)
  /\ stack' = Advance
  /\ UNCHANGED <<pc, args, disk, mainVars, searchVars, outVars, ioLog>>

\* fs.promises.stat(path) succeeds.
StatOk(path) == path \in DOMAIN disk /\ disk[path].statOk

\* The else branch: the file is stat'ed, and pushed when the stat succeeds
\* with a size below the limit; a failing stat is swallowed.
WalkStat ==
  /\ AtEntry /\ Entry.kind = "file"
  /\ toLowerCase(extname(Entry.name)) \notin allowedExt
  /\ ioLog' = Append(ioLog, Call("stat", fullPath, StatOk(fullPath)))
  /\ fileList' = IF StatOk(fullPath) /\ SizeAccepted(disk[fullPath].size)
                 THEN Append(fileList, fullPath) ELSE fileList
  /\ stack' = Advance
  /\ UNCHANGED <<pc, args, disk, mainVars, searchVars, outVars>>

\* An entry that is neither a directory nor a regular file is passed over.
WalkSkipOther ==
  /\ AtEntry /\ Entry.kind \notin {"dir", "file"}
  /\ stack' = Advance
  /\ UNCHANGED <<pc, args, disk, mainVars, fileList, searchVars, outVars, ioLog>>

\* The for loop of the innermost activation is over: it returns; when it was
\* the call of main, main calls searchFiles.
WalkReturn ==
  /\ pc = "walk" /\ stack # <<>> /\ Top.listed /\ Top.k > Len(Top.entries)
  /\ stack' = SubSeq(stack, 1, Len(stack) - 1)
  /\ IF Len(stack) = 1
     THEN pc' = "searchFile" /\ results' = <<>> /\ f' = 1
     ELSE UNCHANGED <<pc, results, f>>
  /\ UNCHANGED <<args, disk, mainVars, fileList, lines, i, tested, outVars, ioLog>>

(***************************************************************************)
(* searchFiles                                                             *)
(***************************************************************************)

file == fileList[f]

\* if (results.length >= maxResults) break;
CapReached(n) == n >= maxResults

\* The for loop over files is over: return results.
SearchExhausted ==
  /\ pc = "searchFile" /\ f > Len(fileList)
  /\ pc' = "report"
  /\ UNCHANGED <<args, disk, mainVars, fileList, stack, searchVars, outVars, ioLog>>

\* The break at the head of the for loop over files.
SearchBreak ==
  /\ pc = "searchFile" /\ f <= Len(fileList) /\ CapReached(Len(results))
  /\ pc' = "report"
  /\ UNCHANGED <<args, disk, mainVars, fileList, stack, searchVars, outVars, ioLog>>

Readable(path) == path \in DOMAIN disk /\ disk[path].kind = "file" /\ disk[path].readOk

\* readFile succeeds and the content is split into lines.
SearchReadFile ==
  /\ pc = "searchFile" /\ f <= Len(fileList) /\ ~CapReached(Len(results))
  /\ Readable(file)
  /\ ioLog' = Append(ioLog, Call("readFile", file, TRUE))
  /\ lines' = splitLines(disk[file].content)
  /\ i' = 0
  /\ pc' = "searchLine"
  /\ UNCHANGED <<args, disk, mainVars, fileList, stack, results, f, tested, outVars>>

\* The failure of readFile ends the loop over the files.
SearchReadFailsAborts ==
  /\ pc = "searchFile" /\ f <= Len(fileList) /\ ~CapReached(Len(results))
  /\ ~Readable(file)
  /\ ioLog' = Append(ioLog, Call("readFile", file, FALSE))
  /\ pc' = "report"
  /\ UNCHANGED <<args, disk, mainVars, fileList, stack, results, f, lines, i,
                 tested, outVars>>

\* readFile fails: the catch swallows the error and the loop goes on.
SearchReadFails ==
  /\ pc = "searchFile" /\ f <= Len(fileList) /\ ~CapReached(Len(results))
  /\ ~Readable(file)
  /\ ioLog' = Append(ioLog, Call("readFile", file, FALSE))
  /\ f' = f + 1
  /\ UNCHANGED <<pc, args, disk, mainVars, fileList, stack, results, lines, i,
                 tested, outVars>>

Tested(accepted) ==
  Append(tested, [file |-> file, index |-> i, text |-> lines[i + 1],
                  accepted |-> accepted, have |-> Len(results)])

\* Math.max(0, i - windowLines)
SnippetStart == IF i - windowLines > 0 THEN i - windowLines ELSE 0

\* The end of the slice taken inclusive: Math.min(lines.length, i + windowLines).
SnippetEndShort ==
  IF i + windowLines < Len(lines) THEN i + windowLines ELSE Len(lines)

\* Math.min(lines.length, i + windowLines + 1)
SnippetEnd ==
  IF i + windowLines + 1 < Len(lines) THEN i + windowLines + 1 ELSE Len(lines)

\* lines.slice(start, end).join('\n')
Snippet == join(SubSeq(lines, SnippetStart + 1, SnippetEnd), "\n")

\* The break of the inner loop forgotten: the lines go on being tested.
SearchMatchNoBreak ==
  /\ pc = "searchLine" /\ i < Len(lines)
  /\ RegExpTest(regex, lines[i + 1])
  /\ tested' = Tested(TRUE)
  /\ results' = Append(results, [file |-> file, line |-> i + 1, snippet |-> Snippet])
  /\ i' = i + 1
  /\ UNCHANGED <<pc, args, disk, mainVars, fileList, stack, f, lines, outVars, ioLog>>

\* regex.test(lines[i]) holds: a record is pushed, and the inner loop breaks
\* when the cap is reached.
SearchMatch ==
  /\ pc = "searchLine" /\ i < Len(lines)
  /\ RegExpTest(regex, lines[i + 1])
  /\ tested' = Tested(TRUE)
  /\ results' = Append(results, [file |-> file, line |-> i + 1, snippet |-> Snippet])
  /\ IF CapReached(Len(results) + 1)
     THEN pc' = "searchFile" /\ f' = f + 1 /\ i' = i
     ELSE pc' = pc /\ f' = f /\ i' = i + 1
  /\ UNCHANGED <<args, disk, mainVars, fileList, stack, lines, outVars, ioLog>>

\* regex.test(lines[i]) does not hold.
SearchNoMatch ==
  /\ pc = "searchLine" /\ i < Len(lines)
  /\ ~RegExpTest(regex, lines[i + 1])
  /\ tested' = Tested(FALSE)
  /\ i' = i + 1
  /\ UNCHANGED <<pc, args, disk, mainVars, fileList, stack, results, f, lines,
                 outVars, ioLog>>

\* The end of a file ends the loop over the files.
SearchEndOfFileStops ==
  /\ pc = "searchLine" /\ i >= Len(lines)
  /\ pc' = "report"
  /\ UNCHANGED <<args, disk, mainVars, fileList, stack, results, f, lines, i, tested,
                 outVars, ioLog>>

\* The for loop over the lines is over: the next file.
SearchEndOfFile ==
  /\ pc = "searchLine" /\ i >= Len(lines)
  /\ pc' = "searchFile"
  /\ f' = f + 1
  /\ UNCHANGED <<args, disk, mainVars, fileList, stack, results, lines, i, tested,
                 outVars, ioLog>>

(***************************************************************************)
(* main, after searchFiles                                                 *)
(***************************************************************************)

\* if (results.length === 0) { console.log('No matches found.'); return; }
MainNoMatches ==
  /\ pc = "report" /\ Len(results) = 0
  /\ stdout' = Append(stdout, "No matches found.")
  /\ pc' = "done"
  /\ UNCHANGED <<args, disk, mainVars, fileList, stack, searchVars, prompt, stderr,
                 exitCode, ioLog>>

\* `\n[${idx+1}] ${res.file}:${res.line}\n${res.snippet}\n`
PromptEntry(idx) ==
  "\n[" \o ToString(idx) \o "] " \o results[idx].file \o ":"
  \o ToString(results[idx].line) \o "\n" \o results[idx].snippet \o "\n"

PromptText ==
  "The user asked: \"" \o query
  \o "\". I found the following code snippets and configuration lines in the project:\n"
  \o join([idx \in 1..Len(results) |-> PromptEntry(idx)], "")
  \o "\nPlease summarise what these snippets show about the user's question."
  \o " Provide a clear, high-level explanation of the relevant logic,"
  \o " configuration or data flow. Do not repeat the code lines verbatim,"
  \o " but refer to them by their index when necessary."

\* The prompt is built and openai.createChatCompletion is called.
MainSummarise ==
  /\ pc = "report" /\ Len(results) # 0
  /\ prompt' = PromptText
  /\ pc' = "summarise"
  /\ UNCHANGED <<args, disk, mainVars, fileList, stack, searchVars, stdout, stderr,
                 exitCode, ioLog>>

\* What the service may answer, and the messages of the errors it may throw.
Summaries == {" These snippets import foo. "}

ErrorMessages == {"Request failed with status code 401"}

\* The call returns: console.log(summary) with the summary trimmed.
SummaryPrinted ==
  /\ pc = "summarise"
  /\ \E content \in Summaries : stdout' = Append(stdout, trim(content))
  /\ ioLog' = Append(ioLog, Call("createChatCompletion", "", TRUE))
  /\ pc' = "done"
  /\ UNCHANGED <<args, disk, mainVars, fileList, stack, searchVars, prompt, stderr,
                 exitCode>>

\* `[${idx+1}] ${res.file}:${res.line}`
FallbackLine(idx) ==
  "[" \o ToString(idx) \o "] " \o results[idx].file \o ":" \o ToString(results[idx].line)

\* What the catch of main prints on stdout.
FallbackOutput == <<"Snippets:">> \o [idx \in 1..Len(results) |-> FallbackLine(idx)]

\* The call throws: the catch reports the error and lists the results.
SummaryFails ==
  /\ pc = "summarise"
  /\ \E message \in ErrorMessages :
       stderr' = Append(stderr, "Error calling OpenAI API: " \o message)
  /\ stdout' = stdout \o FallbackOutput
  /\ ioLog' = Append(ioLog, Call("createChatCompletion", "", FALSE))
  /\ pc' = "done"
  /\ UNCHANGED <<args, disk, mainVars, fileList, stack, searchVars, prompt, exitCode>>

\* main().catch((err) => { console.error(err); process.exit(1); })
MainCatch ==
  /\ pc = "rejected"
  /\ stderr' = Append(stderr, "Error: readdir '" \o ioLog[Len(ioLog)].path \o "'")
  /\ exitCode' = 1
  /\ pc' = "exited"
  /\ UNCHANGED <<args, disk, mainVars, fileList, stack, searchVars, prompt, stdout,
                 ioLog>>

(***************************************************************************)
(* The inputs: file systems, file lists, queries                           *)
(***************************************************************************)

FileNode(name, statOk, size, readOk, content) ==
  [name |-> name, kind |-> "file", listable |-> FALSE, children |-> <<>>,
   statOk |-> statOk, size |-> size, readOk |-> readOk, content |-> content]

DirNode(name, listable, children) ==
  [name |-> name, kind |-> "dir", listable |-> listable, children |-> children,
   statOk |-> TRUE, size |-> 0, readOk |-> FALSE, content |-> ""]

\* A symbolic link, a socket, a device.
OtherNode(name) ==
  [name |-> name, kind |-> "other", listable |-> FALSE, children |-> <<>>,
   statOk |-> TRUE, size |-> 0, readOk |-> FALSE, content |-> ""]

\* The number of entries of a tree.
RECURSIVE Weight(_)
Weight(node) ==
  LET RECURSIVE Sum(_)
      Sum(k) == IF k = 0 THEN 0 ELSE Weight(node.children[k]) + Sum(k - 1)
  IN  1 + Sum(Len(node.children))

\* The directory listings of at most budget entries in all, nested ones
\* included, made of the leaves and of directories named in dirNames; the
\* names of one listing differ.
RECURSIVE Listings(_, _, _)
Listings(budget, leaves, dirNames) ==
  IF budget = 0 THEN {<<>>}
  ELSE LET nodes ==
             leaves
             \cup {DirNode(d, FALSE, <<>>) : d \in dirNames}
             \cup {DirNode(d, TRUE, c) :
                     d \in dirNames, c \in Listings(budget - 1, leaves, dirNames)}
       IN  {<<>>} \cup
           UNION {{<<n>> \o rest :
                     rest \in {r \in Listings(budget - Weight(n), leaves, dirNames) :
                                 \A k \in 1..Len(r) : r[k].name # n.name}} :
                  n \in nodes}

\* What the file system holds at path for the tree node.
RECURSIVE DiskPairs(_, _)
DiskPairs(path, node) ==
  {<<path, [kind |-> node.kind, listable |-> node.listable,
            entries |-> [k \in 1..Len(node.children) |->
                           [name |-> node.children[k].name,
                            kind |-> node.children[k].kind]],
            statOk |-> node.statOk, size |-> node.size,
            readOk |-> node.readOk, content |-> node.content]>>}
  \cup UNION {DiskPairs(pathJoin(path, node.children[k].name), node.children[k]) :
                k \in 1..Len(node.children)}

DiskOf(path, node) ==
  LET pairs == DiskPairs(path, node) IN
  [p \in {pr[1] : pr \in pairs} |-> (CHOOSE pr \in pairs : pr[1] = p)[2]]

\* The file systems under the directory dir: it cannot be listed, or it holds
\* one of the listings.
Disks(dir, budget, leaves, dirNames) ==
  {DiskOf(dir, DirNode(dir, FALSE, <<>>))}
  \cup {DiskOf(dir, DirNode(dir, TRUE, c)) : c \in Listings(budget, leaves, dirNames)}

\* The strings of at most n characters of the set chars.
RECURSIVE Strings(_, _)
Strings(chars, n) ==
  IF n = 0 THEN {""}
  ELSE LET shorter == Strings(chars, n - 1) IN
       shorter \cup {s \o c : s \in shorter, c \in chars}

\* What no step has set yet.
Blank ==
  /\ query = "" /\ directory = "" /\ maxResults = 0 /\ windowLines = 0 /\ regex = ""
  /\ fileList = <<>> /\ stack = <<>> /\ results = <<>> /\ f = 1 /\ lines = <<>>
  /\ i = 0 /\ prompt = "" /\ stdout = <<>> /\ stderr = <<>> /\ exitCode = 0
  /\ ioLog = <<>> /\ tested = <<>>

(***************************************************************************)
(* The whole run of main                                                   *)
(***************************************************************************)

MainNodes == 3

MainLeaves ==
  {FileNode("a.py", TRUE, 30, TRUE, "x\nfoo\nFoo bar"),
   FileNode("big.bin", TRUE, 2 * 1024 * 1024, TRUE, "foo"),
   FileNode("notes", TRUE, 30, FALSE, ""),
   OtherNode("link")}

MainDirNames == {"src", "test"}

Init ==
  /\ pc = "main"
  /\ args \in [positional : {<<>>, <<" ", "">>, <<"foo">>, <<"nothing", "bar">>},
               dir : {"."}, max : {1, 5}, window : {1}]
  /\ disk \in Disks(args.dir, MainNodes, MainLeaves, MainDirNames)
  /\ Blank

Next ==
  \/ MainEmptyQuery \/ MainParse
  \/ WalkReaddir \/ WalkReaddirFails \/ WalkSkipIgnored \/ WalkDescend
  \/ WalkAllowedExt \/ WalkStat \/ WalkSkipOther \/ WalkReturn
  \/ SearchExhausted \/ SearchBreak \/ SearchReadFile \/ SearchReadFails
  \/ SearchMatch \/ SearchNoMatch \/ SearchEndOfFile
  \/ MainNoMatches \/ MainSummarise \/ SummaryPrinted \/ SummaryFails \/ MainCatch

Spec == Init /\ [][Next]_vars

(***************************************************************************)
(* walk alone: main has called it on a directory                           *)
(***************************************************************************)

MaxNodes == 3

\* File names with an allowed extension in upper case, with an unknown
\* extension, and with a leading dot only; sizes on both sides of the limit, and
\* a stat that fails.
WalkLeaves ==
  {FileNode(name, st[1], st[2], TRUE, "") :
     name \in {"a.PY", "b.bin", ".env"},
     st \in {<<TRUE, 1024 * 1024 - 1>>, <<TRUE, 1024 * 1024>>, <<FALSE, 0>>}}
  \cup {OtherNode("link")}

WalkDirNames == {"src", "test"}

WalkRoots == {".", "p/build"}

InitWalk ==
  /\ pc = "walk"
  /\ args \in [positional : {<<"foo">>}, dir : WalkRoots, max : {5}, window : {3}]
  /\ disk \in Disks(args.dir, MaxNodes, WalkLeaves, WalkDirNames)
  /\ query = QueryOf(args) /\ directory = args.dir /\ maxResults = args.max
  /\ windowLines = args.window /\ regex = RegExpSource(QueryOf(args))
  /\ fileList = <<>>
  /\ stack = <<[dir |-> args.dir, listed |-> FALSE, entries |-> <<>>, k |-> 1]>>
  /\ results = <<>> /\ f = 1 /\ lines = <<>> /\ i = 0 /\ prompt = ""
  /\ stdout = <<>> /\ stderr = <<>> /\ exitCode = 0 /\ ioLog = <<>> /\ tested = <<>>

NextWalk ==
  \/ WalkReaddir \/ WalkReaddirFails \/ WalkSkipIgnored \/ WalkDescend
  \/ WalkAllowedExt \/ WalkStat \/ WalkSkipOther \/ WalkReturn

SpecWalk == InitWalk /\ [][NextWalk]_vars

(***************************************************************************)
(* searchFiles alone: main has called it on a list of files                *)
(***************************************************************************)

MaxTotalLines == 3

MaxWindow == 1

MaxCap == 3

MaxQueryLen == 3

MaxLineLen == 2

LineSet == {"foo", "x", ""}

\* The contents of n lines of LineSet, under either line break.
Contents(n) ==
  {join(ls, sep) : ls \in [1..n -> LineSet], sep \in {"\n", "\r\n"}}

\* The files of n lines, and the unreadable file, which counts for one line.
FilesOfLines(n) ==
  {[readOk |-> TRUE, content |-> c] : c \in Contents(n)}
  \cup (IF n = 1 THEN {[readOk |-> FALSE, content |-> ""]} ELSE {})

\* The sequences of files of at most budget lines in all.
RECURSIVE FileSeqs(_)
FileSeqs(budget) ==
  {<<>>} \cup
  UNION {{<<fd>> \o rest : fd \in FilesOfLines(n), rest \in FileSeqs(budget - n)} :
         n \in 1..budget}

\* The k-th file of a list is named fk.
FileName(k) == "f" \o ToString(k)

FilesDisk(fds) ==
  [p \in {FileName(k) : k \in 1..Len(fds)} |->
     LET fd == fds[CHOOSE k \in 1..Len(fds) : FileName(k) = p] IN
     [kind |-> "file", listable |-> FALSE, entries |-> <<>>, statOk |-> TRUE,
      size |-> Len(fd.content), readOk |-> fd.readOk, content |-> fd.content]]

QueryChars == {"A", ".", "|", " "}

LineChars == {"a", "b", ".", "|"}

\* Lists of files of a few lines under the query foo, with every window and
\* cap; and one file of one line under every query.
SearchInputs ==
  {[fds |-> fds, positional |-> <<"foo">>, max |-> m, window |-> w] :
     fds \in FileSeqs(MaxTotalLines), m \in 0..MaxCap, w \in 0..MaxWindow}
  \cup
  {[fds |-> <<[readOk |-> TRUE, content |-> text]>>, positional |-> <<q>>,
    max |-> 5, window |-> 3] :
     text \in Strings(LineChars, MaxLineLen),
     q \in {s \in Strings(QueryChars, MaxQueryLen) : trim(s) # ""}}

InitSearch ==
  /\ pc = "searchFile"
  /\ \E in \in SearchInputs :
       /\ args = [positional |-> in.positional, dir |-> ".", max |-> in.max,
                  window |-> in.window]
       /\ disk = FilesDisk(in.fds)
       /\ fileList = [k \in 1..Len(in.fds) |-> FileName(k)]
  /\ query = QueryOf(args) /\ directory = args.dir /\ maxResults = args.max
  /\ windowLines = args.window /\ regex = RegExpSource(QueryOf(args))
  /\ stack = <<>>
  /\ results = <<>> /\ f = 1 /\ lines = <<>> /\ i = 0 /\ prompt = ""
  /\ stdout = <<>> /\ stderr = <<>> /\ exitCode = 0 /\ ioLog = <<>> /\ tested = <<>>

NextSearch ==
  \/ SearchExhausted \/ SearchBreak \/ SearchReadFile \/ SearchReadFails
  \/ SearchMatch \/ SearchNoMatch \/ SearchEndOfFile

SpecSearch == InitSearch /\ [][NextSearch]_vars

(***************************************************************************)
(* Properties                                                              *)
(***************************************************************************)

\* The text holds the piece.
Contains(text, piece) ==
  \E pos \in 1..(Len(text) - Len(piece) + 1) :
    SubSeq(text, pos, pos + Len(piece) - 1) = piece

\* The text holds the piece, the case of the letters apart.
ContainsIgnoringCase(text, piece) == Contains(toLowerCase(text), toLowerCase(piece))

\* The components of a path, between the "/".
RECURSIVE Components(_)
Components(path) ==
  LET slashes == Positions(path, {"/"}) IN
  IF slashes = {} THEN <<path>>
  ELSE <<SubSeq(path, 1, Min(slashes) - 1)>> \o Components(From(path, Min(slashes) + 1))

BaseName(path) == Components(path)[Len(Components(path))]

\* The names of the directories a path goes through, the last component apart.
DirComponents(path) ==
  {Components(path)[n] : n \in 1..(Len(Components(path)) - 1)}

\* The same, the components of the directory walk was called on apart.
DirComponentsBelowRoot(path) ==
  LET skip == IF directory = "." THEN 0 ELSE Len(Components(directory)) IN
  {Components(path)[n] : n \in (skip + 1)..(Len(Components(path)) - 1)}

InFileList(path) == \E n \in 1..Len(fileList) : fileList[n] = path

Opened(path) == \E n \in 1..Len(ioLog) : ioLog[n].op = "readFile" /\ ioLog[n].path = path

PositionInFiles(path) == CHOOSE n \in 1..Len(fileList) : fileList[n] = path

\* The lines of a file, as searchFiles numbers them.
LinesOf(path) == splitLines(disk[path].content)

\* C1: with maxResults > 0, searchFiles never holds more than maxResults
\* records; every line is tested and every file is read while fewer than
\* maxResults records are held; and once the cap is reached no file after the
\* file of the last record has been opened.
C1_CapStopsSearch ==
  maxResults > 0 =>
    /\ Len(results) <= maxResults
    /\ \A n \in 1..Len(tested) : tested[n].have < maxResults
    /\ \A n \in 1..Len(ioLog) : ioLog[n].op = "readFile" => ioLog[n].have < maxResults
    /\ Len(results) >= maxResults =>
         \A n \in 1..Len(fileList) :
           n > PositionInFiles(results[Len(results)].file) => ~Opened(fileList[n])

\* C1 happens: searchFiles has returned at the cap and left unopened a file
\* that holds a matching line.
C1_Witness ==
  /\ pc = "report" /\ maxResults > 0 /\ Len(results) = maxResults
  /\ \E n \in 1..Len(fileList) :
       /\ ~Opened(fileList[n]) /\ Readable(fileList[n])
       /\ \E k \in 1..Len(LinesOf(fileList[n])) : RegExpTest(regex, LinesOf(fileList[n])[k])

\* The lines first to last of a file, joined by line breaks.
LinesJoined(path, first, last) == join(SubSeq(LinesOf(path), first, last), "\n")

\* C2: the snippet of every record, for a match at line n of a file of N
\* lines, is the lines max(1, n - w) to min(N, n + w) of the file joined by
\* line breaks.
C2_SnippetWindow ==
  \A r \in 1..Len(results) :
    LET n == results[r].line
        N == Len(LinesOf(results[r].file))
    IN  /\ 1 <= n /\ n <= N
        /\ results[r].snippet =
             LinesJoined(results[r].file,
                         IF n - windowLines > 1 THEN n - windowLines ELSE 1,
                         IF n + windowLines < N THEN n + windowLines ELSE N)

\* C2 happens: with a window of at least one line, one record has its window
\* cut at the first line of the file, one at the last line, and one is whole.
C2_Witness ==
  /\ windowLines >= 1
  /\ \E r \in 1..Len(results) : results[r].line - windowLines < 1
  /\ \E r \in 1..Len(results) :
       results[r].line + windowLines > Len(LinesOf(results[r].file))
  /\ \E r \in 1..Len(results) :
       /\ results[r].line - windowLines >= 1
       /\ results[r].line + windowLines <= Len(LinesOf(results[r].file))

\* C3 as claimed: no file of the list lies beneath a directory named in
\* ignoreDirs, the components of the root path included.
C3_NoIgnoredComponent ==
  \A n \in 1..Len(fileList) : DirComponents(fileList[n]) \cap ignoreDirs = {}

\* C3 as amended: no file of the list lies beneath a directory named in
\* ignoreDirs that walk met below the root it was called on, at any depth.
C3_NoIgnoredBelowRoot ==
  \A n \in 1..Len(fileList) : DirComponentsBelowRoot(fileList[n]) \cap ignoreDirs = {}

\* C3 happens: walk has returned, and below a directory it descended into an
\* ignored directory holds a file with an allowed extension.
C3_Witness ==
  /\ pc = "searchFile"
  /\ \E p \in DOMAIN disk :
       /\ disk[p].kind = "file"
       /\ toLowerCase(extname(BaseName(p))) \in allowedExt
       /\ Cardinality(DirComponentsBelowRoot(p)) >= 2
       /\ DirComponentsBelowRoot(p) \cap ignoreDirs # {}
       /\ ~InFileList(p)

\* The regular files walk reaches: those under no ignored directory below
\* the root.
ReachedFiles ==
  {p \in DOMAIN disk :
     disk[p].kind = "file" /\ DirComponentsBelowRoot(p) \cap ignoreDirs = {}}

\* C4: once walk has returned, a regular file it reached is in the list
\* exactly when its lower-cased extension is allowed, or its stat succeeds
\* with a size below 1048576; and nothing but a failing readdir rejects.
C4_FileAcceptance ==
  /\ pc = "searchFile" =>
       \A p \in ReachedFiles :
         InFileList(p) <=>
           \/ toLowerCase(extname(BaseName(p))) \in allowedExt
           \/ disk[p].statOk /\ disk[p].size < 1048576
  /\ pc = "rejected" =>
       ioLog[Len(ioLog)].op = "readdir" /\ ~ioLog[Len(ioLog)].ok

\* C4 happens: walk has returned after it met a file of 1 MiB with an allowed
\* extension, a file of 1 MiB without one, and a file whose stat fails.
C4_Witness ==
  /\ pc = "searchFile"
  /\ \E p \in ReachedFiles :
       /\ toLowerCase(extname(BaseName(p))) \in allowedExt
       /\ disk[p].size = 1048576 /\ InFileList(p)
  /\ \E p \in ReachedFiles :
       /\ toLowerCase(extname(BaseName(p))) \notin allowedExt
       /\ disk[p].statOk /\ disk[p].size = 1048576 /\ ~InFileList(p)
  /\ \E p \in ReachedFiles :
       /\ toLowerCase(extname(BaseName(p))) \notin allowedExt
       /\ ~disk[p].statOk /\ ~InFileList(p)

\* The positional arguments joined hold nothing but whitespace.
QueryIsBlank ==
  \A n \in 1..Len(join(args.positional, " ")) :
    IsWhitespace(CharAt(join(args.positional, " "), n))

\* C5: when the query is empty or only whitespace, the run, once started, has
\* exited with code 1 and an error message, and has listed no directory, read
\* no file, tested no line, called no service and printed nothing.
C5_EmptyQueryRejected ==
  (QueryIsBlank /\ pc # "main") =>
    /\ pc = "exited" /\ exitCode = 1 /\ Len(stderr) = 1
    /\ ioLog = <<>> /\ tested = <<>> /\ fileList = <<>> /\ results = <<>>
    /\ stdout = <<>>

\* C5 happens: the run has exited on a query of whitespace alone.
C5_Witness ==
  pc = "exited" /\ join(args.positional, " ") # "" /\ QueryIsBlank

\* C6: regex.test accepts a line exactly when one of the tokens of the query
\* occurs in it, the case of the letters apart, every character of the token
\* standing for itself.
C6_LiteralTokenMatch ==
  \A n \in 1..Len(tested) :
    tested[n].accepted <=>
      \E k \in 1..Len(splitWhitespace(query)) :
        ContainsIgnoringCase(tested[n].text, splitWhitespace(query)[k])

\* C6 happens: a line is accepted for a token that holds a character of the
\* pattern language and differs from the line in case, and a line is refused
\* under a query with such a character.
C6_Witness ==
  \E n \in 1..Len(tested) :
    /\ tested[n].accepted
    /\ \E k \in 1..Len(splitWhitespace(query)) :
         LET token == splitWhitespace(query)[k] IN
         /\ Positions(token, EscapedChars) # {}
         /\ ContainsIgnoringCase(tested[n].text, token)
         /\ ~Contains(tested[n].text, token)

\* C7 as claimed: when the summarisation has failed, the run ends without
\* error, a warning is on stderr, and stdout shows every record in order: its
\* file, its line number and its snippet.
C7_FallbackPrintsRecords ==
  (pc = "done" /\ Len(ioLog) > 0 /\ ioLog[Len(ioLog)].op = "createChatCompletion"
               /\ ~ioLog[Len(ioLog)].ok) =>
    /\ exitCode = 0
    /\ Len(stderr) = 1
    /\ Len(stdout) >= Len(results)
    /\ \A r \in 1..Len(results) :
         LET shown == stdout[Len(stdout) - Len(results) + r] IN
         /\ Contains(shown, results[r].file)
         /\ Contains(shown, ToString(results[r].line))
         /\ Contains(shown, results[r].snippet)

\* The records of the matching lines of one file, from line n on.
RECURSIVE MatchesFrom(_, _)
MatchesFrom(path, n) ==
  IF n > Len(LinesOf(path)) THEN <<>>
  ELSE (IF RegExpTest(regex, LinesOf(path)[n])
        THEN <<[file |-> path, line |-> n]>> ELSE <<>>)
       \o MatchesFrom(path, n + 1)

\* The records of all qualifying lines: the files in the order supplied, the
\* lines of each readable file in increasing number.
RECURSIVE QualifyingFrom(_)
QualifyingFrom(n) ==
  IF n > Len(fileList) THEN <<>>
  ELSE (IF Readable(fileList[n]) THEN MatchesFrom(fileList[n], 1) ELSE <<>>)
       \o QualifyingFrom(n + 1)

\* C8: what searchFiles returns is the first min(maxResults, M) of the M
\* qualifying lines, one record for each, in their order.
C8_FirstQualifyingLines ==
  pc = "report" =>
    LET all == QualifyingFrom(1)
        count == IF maxResults < Len(all) THEN maxResults ELSE Len(all)
    IN  [r \in 1..Len(results) |-> [file |-> results[r].file, line |-> results[r].line]]
          = SubSeq(all, 1, count)

\* C8 happens: searchFiles has returned records of two files and has left out,
\* at the cap, a later qualifying line of the file of its last record.
C8_Witness ==
  /\ pc = "report"
  /\ Len(results) < Len(QualifyingFrom(1))
  /\ \E r \in 1..Len(results) : results[r].file # results[1].file
  /\ QualifyingFrom(1)[Len(results) + 1].file = results[Len(results)].file

\* C9: a step at which reading the current file fails leaves the records as
\* they are, raises no error and goes on to the next file of the list.
C9_ReadFailureSkipsFile ==
  [][(/\ pc = "searchFile" /\ f <= Len(fileList) /\ Len(results) < maxResults
      /\ ~Readable(fileList[f]))
     => (/\ results' = results /\ pc' = "searchFile" /\ f' = f + 1
         /\ stderr' = stderr /\ exitCode' = exitCode /\ stdout' = stdout)]_vars

\* C9 happens: searchFiles has returned records of a file before and of a
\* file after a file that could not be read.
C9_Witness ==
  /\ pc = "report"
  /\ \E n \in 1..Len(fileList) :
       /\ ~Readable(fileList[n]) /\ Opened(fileList[n])
       /\ \E r \in 1..Len(results) : PositionInFiles(results[r].file) < n
       /\ \E r \in 1..Len(results) : PositionInFiles(results[r].file) > n

ReaddirFailed == \E n \in 1..Len(ioLog) : ioLog[n].op = "readdir" /\ ~ioLog[n].ok

\* C10: once listing a directory has failed, the run is rejected and exits
\* with code 1 and an error message; no file is read, no record is made and
\* nothing, neither matches nor "No matches found.", is printed.
C10_ReaddirFailureAborts ==
  ReaddirFailed =>
    /\ pc \in {"rejected", "exited"}
    /\ pc = "exited" => exitCode = 1 /\ Len(stderr) = 1
    /\ results = <<>> /\ tested = <<>> /\ stdout = <<>> /\ prompt = ""
    /\ \A n \in 1..Len(ioLog) : ioLog[n].op \in {"readdir", "stat"}

\* C10 happens: the run has exited after the listing of a directory below
\* the root failed with files already in the list.
C10_Witness ==
  /\ pc = "exited" /\ ReaddirFailed
  /\ fileList # <<>>
  /\ ioLog[Len(ioLog)].path # directory

====
